---------------------------- MODULE Spec2Model ----------------------------
(***************************************************************************)
(* Model of eda/touche23-valueeval.ipynb, the notebook that turns the      *)
(* three Touche23-ValueEval TSV files into the JSON-lines node file        *)
(* touche23-data.jl.                                                       *)
(*                                                                         *)
(* A text is a sequence of Unicode code points (Python str).  A 64-bit     *)
(* word is a tuple of 8 bytes, least significant byte first, because TLC's *)
(* integers are 32 bits wide.  A line of the output file is modelled by    *)
(* the JSON object it encodes.                                             *)
(***************************************************************************)
EXTENDS Integers, Sequences, FiniteSets, TLC

-----------------------------------------------------------------------------
(* Characters and Python's str methods                                     *)

\* The printable ASCII characters in code point order, without the double
\* quote (34), the backslash (92) and the backquote (96): 32 .. 33, 35 .. 91,
\* 93 .. 95 and 97 .. 126.
Ascii32 == " !"
Ascii35 == "#$%&'()*+,-./0123456789:;<=>?@ABCDEFGHIJKLMNOPQRSTUVWXYZ["
Ascii93 == "]^_"
Ascii97 == "abcdefghijklmnopqrstuvwxyz{|}~"

\* Whether the one-character string c occurs in the string s.
InStr(s, c) ==
    \E i \in 1..Len(s) : SubSeq(s, i, i) = c

\* The position of the one-character string c in the string s.
Index(s, c) ==
    CHOOSE i \in 1..Len(s) : SubSeq(s, i, i) = c

\* ord(c) of a one-character string of printable ASCII.
Ord(c) ==
    IF InStr(Ascii32, c) THEN 31 + Index(Ascii32, c)
    ELSE IF InStr(Ascii35, c) THEN 34 + Index(Ascii35, c)
    ELSE IF InStr(Ascii93, c) THEN 92 + Index(Ascii93, c)
    ELSE 96 + Index(Ascii97, c)

\* The text (code points) of an ASCII string literal.
RECURSIVE T(_)
T(s) ==
    IF Len(s) = 0 THEN <<>> ELSE <<Ord(Head(s))>> \o T(Tail(s))

\* Code points of the model's alphabet outside ASCII.
NBSP == <<160>>           \* U+00A0 NO-BREAK SPACE
EAcuteUpper == <<201>>    \* U+00C9 LATIN CAPITAL LETTER E WITH ACUTE
EAcute == <<233>>         \* U+00E9 LATIN SMALL LETTER E WITH ACUTE
CombiningAcute == <<769>> \* U+0301 COMBINING ACUTE ACCENT

\* str.isspace() of one character: Python's whitespace below U+0100.
IsSpace(c) ==
    c \in (9..13) \cup (28..32) \cup {133, 160}

\* str.lower() of one character (ASCII and Latin-1 capitals).
LowerChar(c) ==
    IF c \in 65..90 \/ (c \in 192..222 /\ c # 215) THEN c + 32 ELSE c

\* str.lower()
RECURSIVE Lower(_)
Lower(text) ==
    IF text = <<>> THEN <<>> ELSE <<LowerChar(Head(text))>> \o Lower(Tail(text))

RECURSIVE LStrip(_)
LStrip(text) ==
    IF text # <<>> /\ IsSpace(Head(text)) THEN LStrip(Tail(text)) ELSE text

RECURSIVE RStrip(_)
RStrip(text) ==
    IF text # <<>> /\ IsSpace(text[Len(text)])
    THEN RStrip(SubSeq(text, 1, Len(text) - 1))
    ELSE text

\* str.strip()
Strip(text) ==
    RStrip(LStrip(text))

\* The first word of a text that starts with a non-space character.
RECURSIVE FirstWord(_)
FirstWord(text) ==
    IF text = <<>> \/ IsSpace(Head(text))
    THEN <<>>
    ELSE <<Head(text)>> \o FirstWord(Tail(text))

\* str.split() without arguments: the maximal runs of non-space characters.
RECURSIVE Split(_)
Split(text) ==
    LET rest == LStrip(text)
        word == FirstWord(rest)
    IN  IF rest = <<>>
        THEN <<>>
        ELSE <<word>> \o Split(SubSeq(rest, Len(word) + 1, Len(rest)))

\* sep.join(words)
RECURSIVE Join(_, _)
Join(sep, words) ==
    IF words = <<>> THEN <<>>
    ELSE IF Len(words) = 1 THEN words[1]
    ELSE words[1] \o sep \o Join(sep, Tail(words))

\* unicodedata.normalize("NFKD", .) of one character, on the model's alphabet.
NFKDChar(c) ==
    CASE c = 160 -> <<32>>
      [] c = 201 -> <<69, 769>>
      [] c = 233 -> <<101, 769>>
      [] OTHER   -> <<c>>

RECURSIVE NFKD(_)
NFKD(text) ==
    IF text = <<>> THEN <<>> ELSE NFKDChar(Head(text)) \o NFKD(Tail(text))

\* str.encode("utf-8") of one character (code points below U+0800).
UTF8Char(c) ==
    IF c < 128 THEN <<c>> ELSE <<192 + (c \div 64), 128 + (c % 64)>>

RECURSIVE UTF8(_)
UTF8(text) ==
    IF text = <<>> THEN <<>> ELSE UTF8Char(Head(text)) \o UTF8(Tail(text))

-----------------------------------------------------------------------------
(* 64-bit arithmetic on tuples of 8 bytes, least significant first         *)

Pow2(n) ==
    CASE n = 0 -> 1 [] n = 1 -> 2 [] n = 2 -> 4 [] n = 3 -> 8 [] n = 4 -> 16
      [] n = 5 -> 32 [] n = 6 -> 64 [] n = 7 -> 128 [] n = 8 -> 256

\* The tuple <<F(1), ..., F(8)>>.
Bytes8(F(_)) ==
    <<F(1), F(2), F(3), F(4), F(5), F(6), F(7), F(8)>>

\* The word of a natural number below 2^31.
Word(n) ==
    <<n % 256, (n \div 256) % 256, (n \div 65536) % 256, (n \div 16777216) % 256,
      0, 0, 0, 0>>

\* Column sums to bytes, carrying upwards and dropping the carry out of byte 8.
Carry(cols) ==
    LET s2 == cols[2] + (cols[1] \div 256)
        s3 == cols[3] + (s2 \div 256)
        s4 == cols[4] + (s3 \div 256)
        s5 == cols[5] + (s4 \div 256)
        s6 == cols[6] + (s5 \div 256)
        s7 == cols[7] + (s6 \div 256)
        s8 == cols[8] + (s7 \div 256)
    IN  <<cols[1] % 256, s2 % 256, s3 % 256, s4 % 256,
          s5 % 256, s6 % 256, s7 % 256, s8 % 256>>

Add(a, b) ==
    Carry(Bytes8(LAMBDA k : a[k] + b[k]))

\* a - b modulo 2^64, as a + ~b + 1.
Sub(a, b) ==
    Add(Add(a, Bytes8(LAMBDA k : 255 - b[k])), Word(1))

\* The low 64 bits of a * b: column k sums the products a[i] * b[k + 1 - i].
Mul(a, b) ==
    Carry(<<a[1] * b[1],
            a[1] * b[2] + a[2] * b[1],
            a[1] * b[3] + a[2] * b[2] + a[3] * b[1],
            a[1] * b[4] + a[2] * b[3] + a[3] * b[2] + a[4] * b[1],
            a[1] * b[5] + a[2] * b[4] + a[3] * b[3] + a[4] * b[2] + a[5] * b[1],
            a[1] * b[6] + a[2] * b[5] + a[3] * b[4] + a[4] * b[3] + a[5] * b[2] + a[6] * b[1],
            a[1] * b[7] + a[2] * b[6] + a[3] * b[5] + a[4] * b[4] + a[5] * b[3] + a[6] * b[2] + a[7] * b[1],
            a[1] * b[8] + a[2] * b[7] + a[3] * b[6] + a[4] * b[5] + a[5] * b[4] + a[6] * b[3] + a[7] * b[2] + a[8] * b[1]>>)

\* The exclusive or of two numbers below 16.
RECURSIVE XorBits(_, _)
XorBits(x, y) ==
    IF x = 0 /\ y = 0 THEN 0
    ELSE ((x + y) % 2) + 2 * XorBits(x \div 2, y \div 2)

RECURSIVE XorRow(_, _)
XorRow(x, y) ==
    IF y > 15 THEN <<>> ELSE <<XorBits(x, y)>> \o XorRow(x, y + 1)

RECURSIVE XorRows(_)
XorRows(x) ==
    IF x > 15 THEN <<>> ELSE <<XorRow(x, 0)>> \o XorRows(x + 1)

\* XorTable[x + 1][y + 1] is the exclusive or of x and y, for x, y below 16.
XorTable == XorRows(0)

XorByte(x, y) ==
    16 * XorTable[(x \div 16) + 1][(y \div 16) + 1] + XorTable[(x % 16) + 1][(y % 16) + 1]

Xor(a, b) ==
    Bytes8(LAMBDA k : XorByte(a[k], b[k]))

\* Rotate left by r bits, 0 < r < 64.
Rotl(a, r) ==
    LET q == r \div 8
        s == r % 8
    IN  Bytes8(LAMBDA k :
            ((a[((k - 1 - q + 8) % 8) + 1] * Pow2(s)) % 256)
            + (a[((k - 2 - q + 16) % 8) + 1] \div Pow2(8 - s)))

\* Logical shift right by r bits, 0 < r < 64.
Shr(a, r) ==
    LET q == r \div 8
        s == r % 8
        B(k) == IF k <= 8 THEN a[k] ELSE 0
    IN  Bytes8(LAMBDA k :
            (B(k + q) \div Pow2(s)) + ((B(k + q + 1) * Pow2(8 - s)) % 256))

-----------------------------------------------------------------------------
(* xxh64_hexdigest, as called by hash_text                                 *)

PRIME64_1 == <<135, 202, 235, 133, 177, 121, 55, 158>>  \* 0x9E3779B185EBCA87
PRIME64_2 == <<79, 235, 212, 39, 61, 174, 178, 194>>    \* 0xC2B2AE3D27D4EB4F
PRIME64_3 == <<249, 121, 55, 158, 177, 103, 86, 22>>    \* 0x165667B19E3779F9
PRIME64_4 == <<99, 174, 178, 194, 119, 202, 235, 133>>  \* 0x85EBCA77C2B2AE63
PRIME64_5 == <<197, 103, 86, 22, 47, 235, 212, 39>>     \* 0x27D4EB2F165667C5

XXH64Round(acc, input) ==
    Mul(Rotl(Add(acc, Mul(input, PRIME64_2)), 31), PRIME64_1)

XXH64MergeRound(acc, val) ==
    Add(Mul(Xor(acc, XXH64Round(Word(0), val)), PRIME64_1), PRIME64_4)

XXH64Avalanche(h) ==
    LET h1 == Mul(Xor(h, Shr(h, 33)), PRIME64_2)
        h2 == Mul(Xor(h1, Shr(h1, 29)), PRIME64_3)
    IN  Xor(h2, Shr(h2, 32))

\* The tail of the input (fewer than 32 bytes): 8-byte lanes, then one 4-byte
\* lane, then single bytes, then the avalanche.
RECURSIVE XXH64Finalize(_, _)
XXH64Finalize(h, bytes) ==
    IF Len(bytes) >= 8
    THEN XXH64Finalize(
             Add(Mul(Rotl(Xor(h, XXH64Round(Word(0), SubSeq(bytes, 1, 8))), 27),
                     PRIME64_1), PRIME64_4),
             SubSeq(bytes, 9, Len(bytes)))
    ELSE IF Len(bytes) >= 4
    THEN XXH64Finalize(
             Add(Mul(Rotl(Xor(h, Mul(SubSeq(bytes, 1, 4) \o <<0, 0, 0, 0>>, PRIME64_1)), 23),
                     PRIME64_2), PRIME64_3),
             SubSeq(bytes, 5, Len(bytes)))
    ELSE IF Len(bytes) >= 1
    THEN XXH64Finalize(
             Mul(Rotl(Xor(h, Mul(Word(bytes[1]), PRIME64_5)), 11), PRIME64_1),
             Tail(bytes))
    ELSE XXH64Avalanche(h)

\* The four accumulators over the 32-byte stripes of a long input.
RECURSIVE XXH64Stripes(_, _)
XXH64Stripes(v, bytes) ==
    IF Len(bytes) < 32 THEN v
    ELSE XXH64Stripes(
             <<XXH64Round(v[1], SubSeq(bytes, 1, 8)), XXH64Round(v[2], SubSeq(bytes, 9, 16)),
               XXH64Round(v[3], SubSeq(bytes, 17, 24)), XXH64Round(v[4], SubSeq(bytes, 25, 32))>>,
             SubSeq(bytes, 33, Len(bytes)))

RECURSIVE XXH64Rest(_)
XXH64Rest(bytes) ==
    IF Len(bytes) < 32 THEN bytes ELSE XXH64Rest(SubSeq(bytes, 33, Len(bytes)))

\* The accumulators of a long input (32 bytes or more) merged into one word.
XXH64Converge(v) ==
    XXH64MergeRound(XXH64MergeRound(XXH64MergeRound(XXH64MergeRound(
        Add(Add(Rotl(v[1], 1), Rotl(v[2], 7)), Add(Rotl(v[3], 12), Rotl(v[4], 18))),
        v[1]), v[2]), v[3]), v[4])

XXH64(bytes, seed) ==
    XXH64Finalize(
        Add(IF Len(bytes) >= 32
            THEN XXH64Converge(XXH64Stripes(<<Add(Add(seed, PRIME64_1), PRIME64_2),
                                              Add(seed, PRIME64_2),
                                              seed,
                                              Sub(seed, PRIME64_1)>>, bytes))
            ELSE Add(seed, PRIME64_5),
            Word(Len(bytes))),
        XXH64Rest(bytes))

\* The lowercase hexadecimal digits of bytes n, n - 1, ..., 1 of a word.
RECURSIVE HexFrom(_, _)
HexFrom(w, n) ==
    IF n = 0 THEN <<>>
    ELSE T(SubSeq("0123456789abcdef", (w[n] \div 16) + 1, (w[n] \div 16) + 1))
         \o T(SubSeq("0123456789abcdef", (w[n] % 16) + 1, (w[n] % 16) + 1))
         \o HexFrom(w, n - 1)

\* The 16 hexadecimal digits of a word, most significant first.
HexDigest(w) ==
    HexFrom(w, 8)

\* seed=42
Seed == 42

\* "".join(text.strip().lower().split())
Normalized(text) ==
    Join(<<>>, Split(Lower(Strip(text))))

\* hash_text without .lower()
hash_text_cased(text) ==
    HexDigest(XXH64(UTF8(Join(<<>>, Split(Strip(text)))), Word(Seed)))

\* hash_text on the first word of the text alone
hash_text_first_word(text) ==
    HexDigest(XXH64(UTF8(Join(<<>>, SubSeq(Split(Lower(Strip(text))), 1, 1))), Word(Seed)))

\* hash_text(text)
hash_text(text) ==
    HexDigest(XXH64(UTF8(Normalized(text)), Word(Seed)))

-----------------------------------------------------------------------------
(* pandas: tables with named, ordered columns                              *)

\* float("nan"), pandas' missing value: a cell that is not a str.
NaN == <<-1>>

\* A DataFrame: its column labels in order and its rows, each a tuple of
\* cells in column order.  The frame of a name not yet assigned is NoFrame.
NoFrame == [columns |-> <<>>, rows |-> <<>>]

HasColumn(df, label) ==
    \E j \in 1..Len(df.columns) : df.columns[j] = label

ColumnIndex(df, label) ==
    CHOOSE j \in 1..Len(df.columns) : df.columns[j] = label

\* df[label] of row r
Cell(df, r, label) ==
    df.rows[r][ColumnIndex(df, label)]

\* df.iloc[r, j] with Python's 0-based positions
iloc(df, r, j) ==
    df.rows[r + 1][j + 1]

\* pd.read_csv(path, sep="\t") of a file whose cells are non-empty,
\* non-numeric texts: the header row gives the columns, every cell is a str.
read_csv(file) ==
    [columns |-> file.columns, rows |-> file.rows]

\* The rows r.. of rows, each with its cell j replaced by (or, when j is one
\* past its last cell, extended with) its entry of values.
RECURSIVE WithCells(_, _, _, _)
WithCells(rows, values, j, r) ==
    IF r > Len(rows) THEN <<>>
    ELSE <<SubSeq(rows[r], 1, j - 1) \o <<values[r]>> \o SubSeq(rows[r], j + 1, Len(rows[r]))>>
         \o WithCells(rows, values, j, r + 1)

\* df[label] = values: replaces the column, or appends it as the last one.
SetColumn(df, label, values) ==
    IF HasColumn(df, label)
    THEN [columns |-> df.columns,
          rows |-> WithCells(df.rows, values, ColumnIndex(df, label), 1)]
    ELSE [columns |-> Append(df.columns, label),
          rows |-> WithCells(df.rows, values, Len(df.columns) + 1, 1)]

\* The tuple of n copies of v.
RECURSIVE Repeat(_, _)
Repeat(v, n) ==
    IF n = 0 THEN <<>> ELSE <<v>> \o Repeat(v, n - 1)

\* The labels of cols followed by those of more that cols lacks, in order.
RECURSIVE UnionColumns(_, _)
UnionColumns(cols, more) ==
    IF more = <<>> THEN cols
    ELSE IF \E j \in 1..Len(cols) : cols[j] = Head(more)
    THEN UnionColumns(cols, Tail(more))
    ELSE UnionColumns(Append(cols, Head(more)), Tail(more))

\* The cells of row r of df under the labels cols[j..], NaN where df lacks one.
RECURSIVE Reindexed(_, _, _, _)
Reindexed(df, r, cols, j) ==
    IF j > Len(cols) THEN <<>>
    ELSE <<IF HasColumn(df, cols[j]) THEN Cell(df, r, cols[j]) ELSE NaN>>
         \o Reindexed(df, r, cols, j + 1)

RECURSIVE ReindexedRows(_, _, _)
ReindexedRows(df, cols, r) ==
    IF r > Len(df.rows) THEN <<>>
    ELSE <<Reindexed(df, r, cols, 1)>> \o ReindexedRows(df, cols, r + 1)

\* pd.concat([a, b, c], ignore_index=True): the union of the columns in
\* order of first appearance, the rows of a, then b, then c.
concat(a, b, c) ==
    LET cols == UnionColumns(UnionColumns(a.columns, b.columns), c.columns)
    IN  [columns |-> cols,
         rows |-> ReindexedRows(a, cols, 1) \o ReindexedRows(b, cols, 1)
                  \o ReindexedRows(c, cols, 1)]

\* Python's < on str: lexicographic by code point.
RECURSIVE StrLess(_, _)
StrLess(a, b) ==
    IF b = <<>> THEN FALSE
    ELSE IF a = <<>> THEN TRUE
    ELSE IF Head(a) # Head(b) THEN Head(a) < Head(b)
    ELSE StrLess(Tail(a), Tail(b))

\* The elements of a set of texts in descending order.
RECURSIVE SortedDescending(_)
SortedDescending(S) ==
    IF S = {} THEN <<>>
    ELSE LET most == CHOOSE m \in S : \A o \in S \ {m} : StrLess(o, m)
         IN  <<most>> \o SortedDescending(S \ {most})

\* The elements of a set of texts in ascending order.
RECURSIVE Sorted(_)
Sorted(S) ==
    IF S = {} THEN <<>>
    ELSE LET least == CHOOSE m \in S : \A o \in S \ {m} : StrLess(m, o)
         IN  <<least>> \o Sorted(S \ {least})

\* The first of the rows r.. of df whose cell under label is key.
RECURSIVE FirstRowWith(_, _, _, _)
FirstRowWith(df, label, key, r) ==
    IF r > Len(df.rows) THEN <<>>
    ELSE IF Cell(df, r, label) = key THEN <<df.rows[r]>>
    ELSE FirstRowWith(df, label, key, r + 1)

\* The rows r.. of df whose cell under label is key, in row order.
RECURSIVE RowsWith(_, _, _, _)
RowsWith(df, label, key, r) ==
    IF r > Len(df.rows) THEN <<>>
    ELSE (IF Cell(df, r, label) = key THEN <<df.rows[r]>> ELSE <<>>)
         \o RowsWith(df, label, key, r + 1)

RECURSIVE Groups(_, _, _)
Groups(df, label, keys) ==
    IF keys = <<>> THEN <<>>
    ELSE <<[key |-> Head(keys),
            df |-> [columns |-> df.columns, rows |-> RowsWith(df, label, Head(keys), 1)]]>>
         \o Groups(df, label, Tail(keys))

\* A grouping that starts a new group at every row, rows r.. of df.
RECURSIVE GroupPerRow(_, _, _)
GroupPerRow(df, label, r) ==
    IF r > Len(df.rows) THEN <<>>
    ELSE <<[key |-> Cell(df, r, label),
            df |-> [columns |-> df.columns, rows |-> <<df.rows[r]>>]]>>
         \o GroupPerRow(df, label, r + 1)

groupby_per_row(df, label) ==
    GroupPerRow(df, label, 1)

\* df.groupby(label): the (key, sub-frame) pairs in ascending key order
\* (sort=True), each sub-frame keeping the row order of df; rows whose key
\* is NaN belong to no group (dropna=True).
groupby(df, label) ==
    Groups(df, label,
           Sorted({Cell(df, r, label) : r \in 1..Len(df.rows)} \ {NaN}))

-----------------------------------------------------------------------------
(* The notebook's cells as functions of the data                           *)

\* The str constants of the notebook.
Against == T("against")
InFavorOf == T("in favor of")
Attack == T("Attack")
Support == T("Support")
Position == T("Position")
Touche23 == T("touche-23")
Train == T("train")
Test == T("test")
Validation == T("validation")
Space == T(" ")

\* stance_map with its values exchanged
stance_map_swapped ==
    {<<T("against"), T("Support")>>, <<T("in favor of"), T("Attack")>>}

\* stance_map, as key/value pairs
stance_map ==
    {<<Against, Attack>>, <<InFavorOf, Support>>}

\* A map that gives a value without a key the relation "Attack".
MapDictDefault(d, v) ==
    IF \E e \in d : e[1] = v THEN (CHOOSE e \in d : e[1] = v)[2] ELSE T("Attack")

\* Series.map(d) of one value: the value of its key, NaN without one.
MapDict(d, v) ==
    IF \E e \in d : e[1] = v THEN (CHOOSE e \in d : e[1] = v)[2] ELSE NaN

\* frame["split"] = label
TagSplit(df, label) ==
    SetColumn(df, "split", Repeat(label, Len(df.rows)))

\* dataset["Stance"].map(stance_map), rows r..
RECURSIVE Relations(_, _)
Relations(df, r) ==
    IF r > Len(df.rows) THEN <<>>
    ELSE <<MapDict(stance_map, Cell(df, r, "Stance"))>> \o Relations(df, r + 1)

\* dataset[label].map(hash_text), rows r..
RECURSIVE Hashes(_, _, _)
Hashes(df, label, r) ==
    IF r > Len(df.rows) THEN <<>>
    ELSE <<hash_text(Cell(df, r, label))>> \o Hashes(df, label, r + 1)

\* What dataset[label].map(hash_text) raises: KeyError without the column,
\* AttributeError (float has no strip) on a NaN cell, nothing ("") otherwise.
HashError(df, label) ==
    IF ~HasColumn(df, label) THEN "KeyError"
    ELSE IF \E r \in 1..Len(df.rows) : Cell(df, r, label) = NaN THEN "AttributeError"
    ELSE ""

\* unicodedata.normalize("NFKD", " ".join(text.strip().split()))
DisplayText(text) ==
    NFKD(Join(Space, Split(Strip(text))))

\* conclusion_node reading the last row of the group.
conclusion_node_last(conclusion_id, conclusion_df) ==
    [dataset |-> Touche23,
     id |-> conclusion_id,
     text |-> DisplayText(iloc(conclusion_df, Len(conclusion_df.rows) - 1, 1)),
     metadata |-> [subdataset |-> <<iloc(conclusion_df, Len(conclusion_df.rows) - 1, 0)[1]>>,
                   type |-> Position]]

\* conclusion_node of a group
conclusion_node(conclusion_id, conclusion_df) ==
    [dataset |-> Touche23,
     id |-> conclusion_id,
     text |-> DisplayText(iloc(conclusion_df, 0, 1)),
     metadata |-> [subdataset |-> <<iloc(conclusion_df, 0, 0)[1]>>,
                   type |-> Position]]

\* What building conclusion_node raises: AttributeError when iloc[0, 1] is
\* NaN (no strip), TypeError when iloc[0, 0] is (not subscriptable).
ConclusionNodeError(conclusion_df) ==
    IF iloc(conclusion_df, 0, 1) = NaN THEN "AttributeError"
    ELSE IF iloc(conclusion_df, 0, 0) = NaN THEN "TypeError"
    ELSE ""

\* premise_node of row r of a group
premise_node(conclusion_id, conclusion_df, r) ==
    [dataset |-> Touche23,
     id |-> Cell(conclusion_df, r, "premise_id"),
     text |-> DisplayText(Cell(conclusion_df, r, "Premise")),
     metadata |-> [argument_id |-> Cell(conclusion_df, r, "Argument ID"),
                   subdataset |-> <<Cell(conclusion_df, r, "Argument ID")[1]>>,
                   related_to |-> conclusion_id,
                   original_split |-> Cell(conclusion_df, r, "split"),
                   type |-> Cell(conclusion_df, r, "relation")]]

\* What building premise_node raises: KeyError without an "Argument ID"
\* column, TypeError when the Argument ID is NaN.
PremiseNodeError(conclusion_df, r) ==
    IF ~HasColumn(conclusion_df, "Argument ID") THEN "KeyError"
    ELSE IF Cell(conclusion_df, r, "Argument ID") = NaN THEN "TypeError"
    ELSE ""

\* The inner loop from row r on: the lines printed, and what stopped it.
RECURSIVE PremiseLines(_, _, _)
PremiseLines(conclusion_id, conclusion_df, r) ==
    IF r > Len(conclusion_df.rows) THEN [lines |-> <<>>, raised |-> ""]
    ELSE IF PremiseNodeError(conclusion_df, r) # ""
    THEN [lines |-> <<>>, raised |-> PremiseNodeError(conclusion_df, r)]
    ELSE LET rest == PremiseLines(conclusion_id, conclusion_df, r + 1)
         IN  [lines |-> <<premise_node(conclusion_id, conclusion_df, r)>> \o rest.lines,
              raised |-> rest.raised]

\* The outer loop over the groups: the lines printed, and what stopped it.
RECURSIVE GroupLines(_)
GroupLines(groups) ==
    IF groups = <<>> THEN [lines |-> <<>>, raised |-> ""]
    ELSE IF ConclusionNodeError(Head(groups).df) # ""
    THEN [lines |-> <<>>, raised |-> ConclusionNodeError(Head(groups).df)]
    ELSE LET premises == PremiseLines(Head(groups).key, Head(groups).df, 1)
             rest == IF premises.raised = "" THEN GroupLines(Tail(groups))
                     ELSE [lines |-> <<>>, raised |-> premises.raised]
         IN  [lines |-> <<conclusion_node(Head(groups).key, Head(groups).df)>>
                        \o premises.lines \o rest.lines,
              raised |-> rest.raised]

\* open(path, "at"): the file's content after opening it for appending.
OpenAt(content) ==
    content

\* open(path, "wt"): the file's content after opening it for writing.
OpenWt(content) ==
    <<>>

\* Lines 72-76: the concatenated table of the three tagged frames.
ConcatCell(train, dev, test) ==
    concat(TagSplit(train, Train), TagSplit(test, Test), TagSplit(dev, Validation))

\* Lines 95-100: the table after the cell, and what it raised.
MapStanceCell(df) ==
    IF HasColumn(df, "Stance")
    THEN [dataset |-> SetColumn(df, "relation", Relations(df, 1)), raised |-> ""]
    ELSE [dataset |-> df, raised |-> "KeyError"]

\* Lines 119-120: the table after the cell, and what it raised.
BuildIdsCell(df) ==
    IF HashError(df, "Conclusion") # ""
    THEN [dataset |-> df, raised |-> HashError(df, "Conclusion")]
    ELSE IF HashError(df, "Premise") # ""
    THEN [dataset |-> SetColumn(df, "conclusion_id", Hashes(df, "Conclusion", 1)),
          raised |-> HashError(df, "Premise")]
    ELSE [dataset |-> SetColumn(SetColumn(df, "conclusion_id", Hashes(df, "Conclusion", 1)),
                                "premise_id", Hashes(df, "Premise", 1)),
          raised |-> ""]

\* Lines 140-169: the lines the loops print, and what they raised.
SaveCell(df) ==
    GroupLines(groupby(df, "conclusion_id"))

-----------------------------------------------------------------------------
(* State                                                                   *)

VARIABLES
    files,       \* the three raw TSV files: train, validation, test
    out,         \* the lines of touche23-data.jl on disk
    train_data,  \* the notebook's names, NoFrame until assigned
    dev_data,
    test_data,
    dataset,
    pc,          \* the cell to run next; "done" after the last, "error" once one raised
    raised,      \* the exception that ended the run, "" for none
    runs,        \* how many times the notebook has been started
    before,      \* what touche23-data.jl held when the current run started
    text_a,      \* two texts given to hash_text,
    text_b,
    id_a,        \* and their content ids, <<>> until hashed
    id_b,
    edits,       \* how many edits made text_b
    minor        \* whether text_b is text_a up to case and the whitespace edits

notebook_vars == <<files, out, train_data, dev_data, test_data, dataset, pc, raised, runs, before>>
text_vars == <<text_a, text_b, id_a, id_b, edits, minor>>
vars == <<notebook_vars, text_vars>>

-----------------------------------------------------------------------------
(* Inputs                                                                  *)

\* The most rows the three files hold together.
MaxRows == 3

\* The most times the notebook is started.
MaxRuns == 2

\* The most edits that make text_b.
MaxEdits == 2

\* The header of arguments-{training,validation,test}.tsv.
StandardHeader == <<"Argument ID", "Conclusion", "Stance", "Premise">>

\* The header without the column label.
Without(label) ==
    SelectSeq(StandardHeader, LAMBDA c : c # label)

\* The cells of an argument under the labels header[j..].
RECURSIVE RowCells(_, _, _)
RowCells(header, arg, j) ==
    IF j > Len(header) THEN <<>>
    ELSE <<CASE header[j] = "Argument ID" -> arg.argument_id
             [] header[j] = "Conclusion" -> arg.conclusion
             [] header[j] = "Stance" -> arg.stance
             [] header[j] = "Premise" -> arg.premise>>
         \o RowCells(header, arg, j + 1)

\* The files of n rows under header whose rows are of the set args.
TablesOf(header, args, n) ==
    {[columns |-> header, rows |-> t] : t \in [1..n -> {RowCells(header, a, 1) : a \in args}]}

\* The triples of files under header holding at most MaxRows rows together.
InputsOf(header, args) ==
    UNION {[train : TablesOf(header, args, n[1]),
            validation : TablesOf(header, args, n[2]),
            test : TablesOf(header, args, n[3])] :
           n \in {m \in (0..MaxRows) \X (0..MaxRows) \X (0..MaxRows) :
                  m[1] + m[2] + m[3] <= MaxRows}}

\* Argument IDs of sub-datasets A and D.
A01 == T("A01")
D02 == T("D02")

\* Two conclusions with one content id and different display texts, and one
\* with another content id.
BanIt == T("Ban it")
BanItLoud == T(" ban  IT")
TaxIt == T("Tax it")

\* Two conclusions whose normalized texts differ and whose xxh64 digests
\* (seed 42) are both 10a743f7e2bbdadd.
Obmk == T("obmkaaaan")
Obxp == T("obxpmtjgu")

\* A conclusion with a character NFKD decomposes.
Cafe == T("Caf") \o EAcute

\* Two premises with one content id, as "Cats are cute. " and "cats are cute."
Cats == T("Cats. ")
CatsLower == T("cats.")

\* A stance stance_map has no key for.
Neutral == T("neutral")

\* A row of the files before it is laid out under a header.
Argument(argument_id, conclusion, stance, premise) ==
    [argument_id |-> argument_id, conclusion |-> conclusion,
     stance |-> stance, premise |-> premise]

\* The arguments of each specification's files.
Arguments ==
    {Argument(A01, BanIt, Against, Cats), Argument(D02, BanItLoud, Against, CatsLower),
     Argument(A01, TaxIt, Against, Cats), Argument(D02, TaxIt, Against, CatsLower)}

ArgumentsCount ==
    [argument_id : {A01}, conclusion : {BanIt, BanItLoud, Obmk, Obxp},
     stance : {Against}, premise : {Cats}]

ArgumentsStance ==
    [argument_id : {A01}, conclusion : {BanIt},
     stance : {Against, InFavorOf, Neutral}, premise : {Cats}]

ArgumentsSchema ==
    [argument_id : {A01}, conclusion : {BanIt, TaxIt},
     stance : {Against}, premise : {Cats}]

ArgumentsRerun ==
    [argument_id : {A01}, conclusion : {BanIt, TaxIt},
     stance : {Against}, premise : {Cats}]

\* A line left in touche23-data.jl by an earlier version of the data.
StaleLine ==
    [dataset |-> Touche23, id |-> T("0000000000000000"), text |-> T("stale"),
     metadata |-> [subdataset |-> T("E"), type |-> Position]]

\* The texts hash_text is tried on.
Seeds == {BanItLoud, Cafe, Obmk, Obxp}

\* No texts under study.
NoTexts ==
    /\ text_a = <<>>
    /\ text_b = <<>>
    /\ id_a = <<>>
    /\ id_b = <<>>
    /\ edits = 0
    /\ minor = TRUE

\* A fresh kernel.
FreshKernel ==
    /\ train_data = NoFrame
    /\ dev_data = NoFrame
    /\ test_data = NoFrame
    /\ dataset = NoFrame
    /\ pc = "read_csv"
    /\ raised = ""

\* The first run over files with the given header and arguments, the output
\* file holding one of outputs.
FirstRun(headers, args, outputs) ==
    /\ \E header \in headers : files \in InputsOf(header, args)
    /\ out \in outputs
    /\ before = out
    /\ runs = 1
    /\ FreshKernel
    /\ NoTexts

Init ==
    FirstRun({StandardHeader}, Arguments, {<<>>})

InitCount ==
    FirstRun({StandardHeader}, ArgumentsCount, {<<>>})

InitStance ==
    FirstRun({StandardHeader}, ArgumentsStance, {<<>>})

InitSchema ==
    FirstRun({StandardHeader} \cup {Without(label) : label \in {"Argument ID", "Conclusion", "Stance", "Premise"}},
             ArgumentsSchema, {<<StaleLine>>})

InitRerun ==
    FirstRun({StandardHeader}, ArgumentsRerun, {<<>>, <<StaleLine>>})

InitHash ==
    /\ files = [train |-> NoFrame, validation |-> NoFrame, test |-> NoFrame]
    /\ out = <<>>
    /\ before = <<>>
    /\ runs = 0
    /\ train_data = NoFrame
    /\ dev_data = NoFrame
    /\ test_data = NoFrame
    /\ dataset = NoFrame
    /\ raised = ""
    /\ pc = "texts"
    /\ text_a \in Seeds
    /\ text_b \in Seeds
    /\ id_a = <<>>
    /\ id_b = <<>>
    /\ edits = 0
    /\ minor = (text_a = text_b)

-----------------------------------------------------------------------------
(* The cells, run top to bottom                                            *)

\* Lines 60-62
ReadCsv ==
    /\ pc = "read_csv"
    /\ train_data' = read_csv(files.train)
    /\ dev_data' = read_csv(files.validation)
    /\ test_data' = read_csv(files.test)
    /\ pc' = "concat"
    /\ UNCHANGED <<files, out, dataset, raised, runs, before, text_vars>>

\* Lines 72-77
Concat ==
    /\ pc = "concat"
    /\ train_data' = TagSplit(train_data, Train)
    /\ test_data' = TagSplit(test_data, Test)
    /\ dev_data' = TagSplit(dev_data, Validation)
    /\ dataset' = ConcatCell(train_data, dev_data, test_data)
    /\ pc' = "map_stance"
    /\ UNCHANGED <<files, out, raised, runs, before, text_vars>>

\* Lines 95-101
MapStance ==
    /\ pc = "map_stance"
    /\ dataset' = MapStanceCell(dataset).dataset
    /\ raised' = MapStanceCell(dataset).raised
    /\ pc' = IF raised' = "" THEN "build_ids" ELSE "error"
    /\ UNCHANGED <<files, out, train_data, dev_data, test_data, runs, before, text_vars>>

\* Lines 119-121
BuildIds ==
    /\ pc = "build_ids"
    /\ LET cell == BuildIdsCell(dataset)
       IN  /\ dataset' = cell.dataset
           /\ raised' = cell.raised
    /\ pc' = IF raised' = "" THEN "save" ELSE "error"
    /\ UNCHANGED <<files, out, train_data, dev_data, test_data, runs, before, text_vars>>

\* Lines 139-169: the file is opened (and truncated), the loops print until
\* they end or raise, and the with statement closes the file either way.
SaveDataset ==
    /\ pc = "save"
    /\ LET written == SaveCell(dataset)
       IN  /\ out' = OpenWt(out) \o written.lines
           /\ raised' = written.raised
    /\ pc' = IF raised' = "" THEN "done" ELSE "error"
    /\ UNCHANGED <<files, train_data, dev_data, test_data, dataset, runs, before, text_vars>>

\* Lines 139-169 on a disk that fills up: a print fails after k lines went
\* through, and the run ends with what was written.
SaveDatasetDiskFull ==
    /\ pc = "save"
    /\ LET written == SaveCell(dataset)
       IN  /\ written.raised = ""
           /\ \E k \in 0..(Len(written.lines) - 1) :
                  out' = OpenWt(out) \o SubSeq(written.lines, 1, k)
    /\ raised' = "OSError"
    /\ pc' = "error"
    /\ UNCHANGED <<files, train_data, dev_data, test_data, dataset, runs, before, text_vars>>

\* The notebook is run again from the top in a fresh kernel, over the same
\* files, after a run that ended.
Restart ==
    /\ pc \in {"done", "error"}
    /\ runs < MaxRuns
    /\ runs' = runs + 1
    /\ before' = out
    /\ train_data' = NoFrame
    /\ dev_data' = NoFrame
    /\ test_data' = NoFrame
    /\ dataset' = NoFrame
    /\ pc' = "read_csv"
    /\ raised' = ""
    /\ UNCHANGED <<files, out, text_vars>>

Next ==
    \/ ReadCsv
    \/ Concat
    \/ MapStance
    \/ BuildIds
    \/ SaveDataset

NextRerun ==
    \/ Next
    \/ SaveDatasetDiskFull
    \/ Restart

Spec == Init /\ [][Next]_vars

SpecCount == InitCount /\ [][Next]_vars

SpecStance == InitStance /\ [][Next]_vars

SpecSchema == InitSchema /\ [][Next]_vars

SpecRerun == InitRerun /\ [][NextRerun]_vars

-----------------------------------------------------------------------------
(* hash_text on two texts                                                  *)

\* c with its case swapped, c itself when it has none.
SwapCaseChar(c) ==
    IF c \in 65..90 \/ c = 201 THEN c + 32
    ELSE IF c \in 97..122 \/ c = 233 THEN c - 32
    ELSE c

\* text with ws put in after position i.
InsertAfter(text, i, ws) ==
    SubSeq(text, 1, i) \o <<ws>> \o SubSeq(text, i + 1, Len(text))

\* text without position i.
RemoveAt(text, i) ==
    SubSeq(text, 1, i - 1) \o SubSeq(text, i + 1, Len(text))

\* The whitespace the edits put in: a space and a no-break space.
Blanks == {32, 160}

Editing ==
    /\ pc = "texts"
    /\ edits < MaxEdits
    /\ edits' = edits + 1
    /\ UNCHANGED <<notebook_vars, text_a, id_a, id_b>>

\* Whitespace is put before text_b.
PadLeft ==
    /\ Editing
    /\ \E ws \in Blanks : text_b' = <<ws>> \o text_b
    /\ UNCHANGED minor

\* Whitespace is put behind text_b.
PadRight ==
    /\ Editing
    /\ \E ws \in Blanks : text_b' = text_b \o <<ws>>
    /\ UNCHANGED minor

\* Whitespace is taken off an end of text_b.
Unpad ==
    /\ Editing
    /\ \/ /\ text_b # <<>>
          /\ IsSpace(Head(text_b))
          /\ text_b' = Tail(text_b)
       \/ /\ text_b # <<>>
          /\ IsSpace(text_b[Len(text_b)])
          /\ text_b' = SubSeq(text_b, 1, Len(text_b) - 1)
    /\ UNCHANGED minor

\* A letter of text_b changes case.
SwapCase ==
    /\ Editing
    /\ \E i \in 1..Len(text_b) :
           /\ SwapCaseChar(text_b[i]) # text_b[i]
           /\ text_b' = [text_b EXCEPT ![i] = SwapCaseChar(text_b[i])]
    /\ UNCHANGED minor

\* A run of whitespace inside text_b grows by one.
StretchRun ==
    /\ Editing
    /\ \E i \in 1..Len(text_b), ws \in Blanks :
           /\ IsSpace(text_b[i])
           /\ text_b' = InsertAfter(text_b, i, ws)
    /\ UNCHANGED minor

\* A run of whitespace inside text_b shrinks by one, not to nothing.
ShrinkRun ==
    /\ Editing
    /\ \E i \in 1..(Len(text_b) - 1) :
           /\ IsSpace(text_b[i])
           /\ IsSpace(text_b[i + 1])
           /\ text_b' = RemoveAt(text_b, i)
    /\ UNCHANGED minor

\* A character of text_b that is not whitespace becomes an "x".
ChangeLetter ==
    /\ Editing
    /\ \E i \in 1..Len(text_b) :
           /\ ~IsSpace(text_b[i])
           /\ LowerChar(text_b[i]) # 120
           /\ text_b' = [text_b EXCEPT ![i] = 120]
    /\ minor' = FALSE

\* Line 119 on the two texts.
HashTexts ==
    /\ pc = "texts"
    /\ id_a' = hash_text(text_a)
    /\ id_b' = hash_text(text_b)
    /\ pc' = "hashed"
    /\ UNCHANGED <<files, out, train_data, dev_data, test_data, dataset, raised,
                   runs, before, text_a, text_b, edits, minor>>

NextHash ==
    \/ PadLeft
    \/ PadRight
    \/ Unpad
    \/ SwapCase
    \/ StretchRun
    \/ ShrinkRun
    \/ ChangeLetter
    \/ HashTexts

SpecHash == InitHash /\ [][NextHash]_vars

-----------------------------------------------------------------------------
(* Properties of a run over files with the standard header                 *)

\* The rows of a file with the standard header, tagged with their split.
Tagged(file, split) ==
    [i \in 1..Len(file.rows) |->
        [argument_id |-> file.rows[i][1], conclusion |-> file.rows[i][2],
         stance |-> file.rows[i][3], premise |-> file.rows[i][4], split |-> split]]

\* The input rows in the order the notebook meets them.
InputRows ==
    Tagged(files.train, Train) \o Tagged(files.test, Test)
    \o Tagged(files.validation, Validation)

\* The input rows with the conclusion content id, in that order.
RowsOf(id) ==
    SelectSeq(InputRows, LAMBDA row : hash_text(row.conclusion) = id)

PositionLine(line) ==
    line.metadata.type = Position

PremiseLinesOf(lines) ==
    SelectSeq(lines, LAMBDA line : ~PositionLine(line))

PositionLinesOf(lines) ==
    SelectSeq(lines, LAMBDA line : PositionLine(line))

\* The premise lines that name the conclusion id, in output order.
PremisesOf(id) ==
    SelectSeq(out, LAMBDA line : ~PositionLine(line) /\ line.metadata.related_to = id)

\* C1: in the output of a completed run, the related_to of every PremiseNode
\* line is the id of a PositionNode line, and of exactly one.
C1_RelatedToResolvesOnce ==
    pc = "done" =>
        \A i \in 1..Len(out) :
            ~PositionLine(out[i]) =>
                Cardinality({j \in 1..Len(out) :
                                /\ PositionLine(out[j])
                                /\ out[j].id = out[i].metadata.related_to}) = 1

\* A completed run with two groups, one of them with two premises.
C1_Witness ==
    /\ pc = "done"
    /\ Len(PositionLinesOf(out)) = 2
    /\ \E i, j \in 1..Len(out) :
           /\ i < j
           /\ ~PositionLine(out[i])
           /\ ~PositionLine(out[j])
           /\ out[i].metadata.related_to = out[j].metadata.related_to

\* C4: the PositionNode lines come in ascending order of their id; the
\* output starts with one, every PremiseNode line names the nearest
\* PositionNode line above it, and the PremiseNode lines of a group are the
\* rows of its conclusion id in the order train, test, validation, each file
\* top to bottom.
C4_GroupsAscendingRowsInEncounterOrder ==
    pc = "done" =>
        /\ \A i, j \in 1..Len(out) :
               (i < j /\ PositionLine(out[i]) /\ PositionLine(out[j]))
                   => StrLess(out[i].id, out[j].id)
        /\ out # <<>> => PositionLine(out[1])
        /\ \A i \in 2..Len(out) :
               ~PositionLine(out[i]) =>
                   out[i].metadata.related_to
                       = IF PositionLine(out[i - 1]) THEN out[i - 1].id
                         ELSE out[i - 1].metadata.related_to
        /\ \A j \in 1..Len(out) :
               PositionLine(out[j]) =>
                   LET premises == PremisesOf(out[j].id)
                       rows == RowsOf(out[j].id)
                   IN  /\ Len(premises) = Len(rows)
                       /\ \A k \in 1..Len(rows) :
                              /\ premises[k].metadata.argument_id = rows[k].argument_id
                              /\ premises[k].metadata.original_split = rows[k].split
                              /\ premises[k].id = hash_text(rows[k].premise)

\* A completed run with a group of a test row and a validation row, in that
\* order, and behind it a group of a train row.
C4_Witness ==
    /\ pc = "done"
    /\ Len(out) = 5
    /\ PositionLine(out[1])
    /\ ~PositionLine(out[2])
    /\ ~PositionLine(out[3])
    /\ PositionLine(out[4])
    /\ out[2].metadata.original_split = Test
    /\ out[3].metadata.original_split = Validation
    /\ out[5].metadata.original_split = Train

\* C9: the text of a PositionNode line is the display text of the Conclusion
\* of the first row met with its conclusion id, and its subdataset is the
\* first character of that row's Argument ID.
C9_PositionNodeFromFirstRow ==
    pc = "done" =>
        \A j \in 1..Len(out) :
            PositionLine(out[j]) =>
                /\ RowsOf(out[j].id) # <<>>
                /\ out[j].text = DisplayText(Head(RowsOf(out[j].id)).conclusion)
                /\ out[j].metadata.subdataset = <<Head(Head(RowsOf(out[j].id)).argument_id)>>

\* A completed run with one group whose first row is D02 with " ban  IT" and
\* whose second row is A01 with "Ban it".
C9_Witness ==
    /\ pc = "done"
    /\ Len(out) = 3
    /\ out[1].text = T("ban IT")
    /\ out[1].metadata.subdataset = T("D")
    /\ out[2].metadata.argument_id = D02
    /\ out[3].metadata.argument_id = A01
    /\ InputRows[1].conclusion = BanItLoud
    /\ InputRows[2].conclusion = BanIt

\* The input rows in the order of the output: group after group.
RECURSIVE RowsInOutputOrder(_)
RowsInOutputOrder(lines) ==
    IF lines = <<>> THEN <<>>
    ELSE (IF PositionLine(Head(lines)) THEN RowsOf(Head(lines).id) ELSE <<>>)
         \o RowsInOutputOrder(Tail(lines))

\* C2 as stated: a completed run emits one PremiseNode line per input row
\* and one PositionNode line per distinct normalized conclusion text.
C2_OnePositionPerNormalizedText ==
    pc = "done" =>
        /\ Len(PremiseLinesOf(out)) = Len(InputRows)
        /\ Len(PositionLinesOf(out))
               = Cardinality({Normalized(InputRows[r].conclusion) : r \in 1..Len(InputRows)})

\* C2, amended: a completed run emits one PremiseNode line per input row,
\* with the row's argument_id, split, premise id and conclusion id, and one
\* PositionNode line per distinct conclusion content id: the rows of
\* "obmkaaaan" and "obxpmtjgu", whose ids are equal, share one.
C2_OnePositionPerContentId ==
    pc = "done" =>
        LET premises == PremiseLinesOf(out)
            rows == RowsInOutputOrder(out)
        IN  /\ Len(premises) = Len(InputRows)
            /\ Len(rows) = Len(InputRows)
            /\ \A k \in 1..Len(rows) :
                   /\ premises[k].metadata.argument_id = rows[k].argument_id
                   /\ premises[k].metadata.original_split = rows[k].split
                   /\ premises[k].id = hash_text(rows[k].premise)
                   /\ premises[k].metadata.related_to = hash_text(rows[k].conclusion)
            /\ Len(PositionLinesOf(out))
                   = Cardinality({hash_text(InputRows[r].conclusion) : r \in 1..Len(InputRows)})
            /\ (\E r, q \in 1..Len(InputRows) :
                    InputRows[r].conclusion = Obmk /\ InputRows[q].conclusion = Obxp)
                   => Len(PositionLinesOf(out))
                          < Cardinality({Normalized(InputRows[r].conclusion) :
                                         r \in 1..Len(InputRows)})

\* A completed run over three rows: "obmkaaaan", "obxpmtjgu" and "Ban it",
\* with two PositionNode lines and three PremiseNode lines.
C2_Witness ==
    /\ pc = "done"
    /\ Len(InputRows) = 3
    /\ {InputRows[r].conclusion : r \in 1..3} = {Obmk, Obxp, BanIt}
    /\ Len(PositionLinesOf(out)) = 2
    /\ Len(PremiseLinesOf(out)) = 3

\* C5: the PremiseNode line of a row whose Stance is "against" has the type
\* "Attack", that of a row whose Stance is "in favor of" the type "Support".
C5_StanceToRelation ==
    pc = "done" =>
        LET premises == PremiseLinesOf(out)
            rows == RowsInOutputOrder(out)
        IN  /\ Len(premises) = Len(InputRows)
            /\ Len(rows) = Len(InputRows)
            /\ \A k \in 1..Len(rows) :
                   /\ premises[k].metadata.original_split = rows[k].split
                   /\ rows[k].stance = T("against") => premises[k].metadata.type = T("Attack")
                   /\ rows[k].stance = T("in favor of") => premises[k].metadata.type = T("Support")

\* A completed run with an Attack line and a Support line.
C5_Witness ==
    /\ pc = "done"
    /\ \E i, j \in 1..Len(out) :
           /\ out[i].metadata.type = T("Attack")
           /\ out[j].metadata.type = T("Support")
           /\ i < j
    /\ \E r, q \in 1..Len(InputRows) :
           /\ r < q
           /\ InputRows[r].stance = T("against")
           /\ InputRows[q].stance = T("in favor of")

\* The files with a row's Stance replaced by "against" where stance_map has
\* no key for it.
Restanced(file) ==
    [columns |-> file.columns,
     rows |-> [i \in 1..Len(file.rows) |->
                  [file.rows[i] EXCEPT ![3] = IF @ \in {Against, InFavorOf} THEN @ ELSE Against]]]

\* The lines of a run of all cells over the three files, from a fresh kernel
\* and a disk with room.
CleanRun(input) ==
    SaveCell(BuildIdsCell(MapStanceCell(ConcatCell(read_csv(input.train),
                                                   read_csv(input.validation),
                                                   read_csv(input.test))).dataset).dataset).lines

\* A line without its relation type.
Untyped(line) ==
    IF PositionLine(line) THEN line ELSE [line EXCEPT !.metadata.type = NaN]

\* C6: a Stance that is neither "against" nor "in favor of" raises nothing;
\* the row's PremiseNode line is emitted with a null type (NaN), and the
\* output is otherwise what it would be had the Stance been a mapped one.
C6_UnmappedStanceGivesNullType ==
    /\ pc # "error"
    /\ raised = ""
    /\ pc = "done" =>
           LET premises == PremiseLinesOf(out)
               rows == RowsInOutputOrder(out)
               mapped == CleanRun([train |-> Restanced(files.train),
                                   validation |-> Restanced(files.validation),
                                   test |-> Restanced(files.test)])
           IN  /\ Len(premises) = Len(InputRows)
               /\ Len(rows) = Len(InputRows)
               /\ \A k \in 1..Len(rows) :
                      /\ premises[k].metadata.original_split = rows[k].split
                      /\ (premises[k].metadata.type = NaN)
                             <=> (rows[k].stance \notin {Against, InFavorOf})
               /\ Len(out) = Len(mapped)
               /\ \A i \in 1..Len(out) : Untyped(out[i]) = Untyped(mapped[i])

\* A completed run over an unmapped row between two mapped ones: the line
\* of the unmapped row has the type NaN, the others Attack and Support.
C6_Witness ==
    /\ pc = "done"
    /\ Len(InputRows) = 3
    /\ InputRows[2].stance = Neutral
    /\ Len(out) = 4
    /\ out[2].metadata.type = T("Attack")
    /\ out[3].metadata.type = NaN
    /\ out[4].metadata.type = T("Support")

-----------------------------------------------------------------------------
(* Properties of a run over files that lack a column                       *)

\* The files have no column of the label.
Missing(label) ==
    \A j \in 1..Len(files.train.columns) : files.train.columns[j] # label

\* How many rows the three files hold.
InputSize ==
    Len(files.train.rows) + Len(files.validation.rows) + Len(files.test.rows)

\* C7 as stated, of files that hold rows: when the files lack an expected
\* column the run does not complete, and the output file gets no node line:
\* it keeps what it held before the run, or is empty.
C7_MissingColumnAbortsBeforeAnyLine ==
    (/\ InputSize > 0
     /\ \E label \in {"Argument ID", "Conclusion", "Stance", "Premise"} : Missing(label)) =>
        /\ pc # "done"
        /\ out \in {before, <<>>}

-----------------------------------------------------------------------------
(* Properties of runs after runs                                           *)

\* C10: a completed run leaves exactly the lines of a clean run over the
\* same files, whatever the output file held when the run started: stale
\* lines, the lines of a completed run, or what a run on a full disk left.
C10_RerunLeavesCleanOutput ==
    pc = "done" => out = CleanRun(files)

\* A second run, completed, that started with the output file holding part of
\* the lines: what the first run wrote before the disk was full.
C10_Witness ==
    /\ pc = "done"
    /\ runs = 2
    /\ before # <<>>
    /\ Len(before) < Len(out)
    /\ before = SubSeq(out, 1, Len(before))
    /\ Len(out) >= 4

-----------------------------------------------------------------------------
(* Properties of hash_text                                                 *)

\* C3: two texts that differ only in leading or trailing whitespace, in the
\* case of letters and in the length of inner runs of whitespace have the
\* same content id.
C3_SameIdUpToCaseAndWhitespace ==
    (pc = "hashed" /\ minor) => id_a = id_b

\* " ban  IT" and " Ban IT", an inner run shortened and a letter capitalized,
\* hashed to one id.
C3_Witness ==
    /\ pc = "hashed"
    /\ minor
    /\ text_a = T(" ban  IT")
    /\ text_b = T(" Ban IT")
    /\ id_a = id_b

\* C8 as stated: two texts whose normalized texts differ have different
\* content ids.
C8_DistinctTextsDistinctIds ==
    (pc = "hashed" /\ Normalized(text_a) # Normalized(text_b)) => id_a # id_b

\* C8, amended: two texts whose normalized texts differ have different
\* content ids unless their xxh64 digests collide, which nothing detects:
\* of the texts tried only "obmkaaaan" and "obxpmtjgu" do, both hashed to
\* 10a743f7e2bbdadd.
C8_DistinctIdsButForCollisions ==
    pc = "hashed" =>
        /\ (Normalized(text_a) # Normalized(text_b) /\ id_a = id_b)
               => {Normalized(text_a), Normalized(text_b)} = {T("obmkaaaan"), T("obxpmtjgu")}
        /\ {Normalized(text_a), Normalized(text_b)} = {T("obmkaaaan"), T("obxpmtjgu")}
               => id_a = T("10a743f7e2bbdadd") /\ id_b = T("10a743f7e2bbdadd")

\* "obmkaaaan" and "Obxpmtjgu " hashed to one id.
C8_Witness ==
    /\ pc = "hashed"
    /\ text_a = T("obmkaaaan")
    /\ text_b = T("Obxpmtjgu ")
    /\ Normalized(text_a) # Normalized(text_b)
    /\ id_a = id_b

=============================================================================
